---- MODULE Spec2Model ----
(***************************************************************************)
(* Model of the preprocessing pipeline of notebooks/Preprocessing.ipynb:   *)
(* the scikit-learn Pipeline `preprocessor` (and `pipe_baseline`, built    *)
(* from the same step objects), fitted and applied to data frames.         *)
(*                                                                         *)
(* Numbers are kept exact.  A numeric cell is a sequence: <<>> is a        *)
(* missing value (NaN) and <<h>> is the number h/2, so that the median of  *)
(* an even number of integer scores (the mean of the two middle ones) is   *)
(* still an integer h.  A ratio cell is <<>> (NaN) or a reduced fraction   *)
(* <<n, d>>; <<1, 0>> is +Inf.                                             *)
(***************************************************************************)
EXTENDS Integers, Sequences, FiniteSets, TLC

VARIABLES data, impute, encode, last, fitted_on

vars == <<data, impute, encode, last, fitted_on>>

(* ------------------------------ bounds -------------------------------- *)

\* Largest number of rows of a data frame.
MaxRows == 2

(* ------------------------- columns (cell [11]) ------------------------ *)

STATUS == "Working Professional or Student"

\* The raw columns of train.csv / test.csv that the model keeps, in file order.
raw_columns ==
    << "Name", STATUS, "Academic Pressure", "Work Pressure",
       "Study Satisfaction", "Job Satisfaction", "Sleep Duration",
       "Dietary Habits", "Financial Stress" >>

\* drop_cols, restricted to the columns the model keeps.
drop_cols ==
    << "Name", "Academic Pressure", "Work Pressure",
       "Study Satisfaction", "Job Satisfaction" >>

\* categorical_cols, restricted to the columns the model keeps.
categorical_cols == << STATUS, "Sleep Duration", "Dietary Habits" >>

\* The imputer configured without its last column.
impute_cols_short == << "Pressure", "Satisfaction" >>

\* GroupImputer(["Pressure", "Satisfaction", "Financial Stress"])
impute_cols == << "Pressure", "Satisfaction", "Financial Stress" >>

ImputeCols == {impute_cols[k] : k \in 1..Len(impute_cols)}

RATIO == "Pressure_Satisfaction_Ratio"

(* ----------------------------- data frames ---------------------------- *)

Range(s) == {s[i] : i \in 1..Len(s)}

Missing == << >>

Num(score) == << 2 * score >>

IsMissing(cell) == cell = Missing

\* A data frame: its ordered column names and its rows (column name -> cell).
Frame(cols, rows) == [cols |-> cols, rows |-> rows]

Has(X, c) == \E i \in 1..Len(X.cols) : X.cols[i] = c

HasAll(X, cs) == \A k \in 1..Len(cs) : Has(X, cs[k])

\* X[c] = cells (one per row): a new column is appended, an old one replaced.
Assign(X, c, cells) ==
    Frame(IF Has(X, c) THEN X.cols ELSE Append(X.cols, c),
          [i \in 1..Len(X.rows) |->
              [k \in (DOMAIN X.rows[i]) \cup {c} |->
                  IF k = c THEN cells[i] ELSE X.rows[i][k]]])

\* X.drop(columns = cs), for cs all present in X.
Drop(X, cs) ==
    Frame(SelectSeq(X.cols, LAMBDA c : c \notin Range(cs)),
          [i \in 1..Len(X.rows) |->
              [k \in (DOMAIN X.rows[i]) \ Range(cs) |-> X.rows[i][k]]])

(* ------------------- preprocess.py: feature derivation ---------------- *)

STUDENT == "Student"

WORKING == "Working Professional"

\* The status-specific source cell: the column matching the row's status when
\* it is populated, else the other one, else missing.
Coalesce(row, student_col, working_col) ==
    LET own   == IF row[STATUS] = STUDENT THEN row[student_col] ELSE row[working_col]
        other == IF row[STATUS] = STUDENT THEN row[working_col] ELSE row[student_col]
    IN  IF ~IsMissing(own) THEN own ELSE other

PressureOf(row) == Coalesce(row, "Academic Pressure", "Work Pressure")

SatisfactionOf(row) == Coalesce(row, "Study Satisfaction", "Job Satisfaction")

\* A stage's outcome: a new frame, or a raised exception.
Ok(X) == [ok |-> TRUE, X |-> X]

Raise == [ok |-> FALSE, X |-> Frame(<< >>, << >>)]

assign_pressure(X) ==
    IF ~HasAll(X, << STATUS, "Academic Pressure", "Work Pressure" >>) THEN Raise
    ELSE Ok(Assign(X, "Pressure", [i \in 1..Len(X.rows) |-> PressureOf(X.rows[i])]))

assign_satisfaction(X) ==
    IF ~HasAll(X, << STATUS, "Study Satisfaction", "Job Satisfaction" >>) THEN Raise
    ELSE Ok(Assign(X, "Satisfaction", [i \in 1..Len(X.rows) |-> SatisfactionOf(X.rows[i])]))

(* ---------------------- preprocess.py: ratio feature ------------------ *)

RECURSIVE Gcd(_, _)
Gcd(a, b) == IF b = 0 THEN a ELSE Gcd(b, a % b)

\* n/d as a reduced fraction (n >= 0, d > 0).
Fraction(n, d) == << n \div Gcd(n, d), d \div Gcd(n, d) >>

\* The value the ratio takes when Satisfaction is 0.
RatioSentinel == << 0, 1 >>

\* Pressure / Satisfaction of one row, the sentinel when Satisfaction is 0; a
\* missing operand of the division gives a missing ratio.
RatioOf(row) ==
    LET p == row["Pressure"]
        s == row["Satisfaction"]
    IN  IF IsMissing(s) THEN Missing
        ELSE IF s[1] = 0 THEN RatioSentinel
        ELSE IF IsMissing(p) THEN Missing
        ELSE Fraction(p[1], s[1])

add_pressure_ratio(X) ==
    IF ~HasAll(X, << "Pressure", "Satisfaction" >>) THEN Raise
    ELSE Ok(Assign(X, RATIO, [i \in 1..Len(X.rows) |-> RatioOf(X.rows[i])]))

(* -------------------- preprocess.py: text normalisation --------------- *)

DietVocabulary == {"Healthy", "Moderate", "Unhealthy"}

SleepVocabulary == {"Less than 5 hours", "5-6 hours", "7-8 hours", "More than 8 hours"}

DietOf(row) ==
    IF row["Dietary Habits"] \in DietVocabulary THEN row["Dietary Habits"] ELSE "Other"

SleepOf(row) ==
    IF row["Sleep Duration"] \in SleepVocabulary THEN row["Sleep Duration"] ELSE "Other"

replace_diet_habits(X) ==
    IF ~Has(X, "Dietary Habits") THEN Raise ELSE Ok(Assign(X, "Dietary Habits", [i \in 1..Len(X.rows) |-> DietOf(X.rows[i])]))

replace_sleep_duration(X) ==
    IF ~Has(X, "Sleep Duration") THEN Raise ELSE Ok(Assign(X, "Sleep Duration", [i \in 1..Len(X.rows) |-> SleepOf(X.rows[i])]))

(* ----------------------- preprocess.py: GroupImputer ------------------ *)

RECURSIVE Insert(_, _)
Insert(s, v) ==
    IF s = << >> THEN << v >>
    ELSE IF v <= Head(s) THEN << v >> \o s
    ELSE << Head(s) >> \o Insert(Tail(s), v)

RECURSIVE Sort(_)
Sort(s) == IF s = << >> THEN << >> ELSE Insert(Sort(Tail(s)), Head(s))

\* The median of a sequence of present cells; missing when there is none.
Median(cells) ==
    LET s == Sort([i \in 1..Len(cells) |-> cells[i][1]])
        n == Len(s)
    IN  IF n = 0 THEN Missing
        ELSE IF n % 2 = 1 THEN << s[(n + 1) \div 2] >>
        ELSE << (s[n \div 2] + s[n \div 2 + 1]) \div 2 >>

\* The present cells of column c in a sequence of rows.
Present(rows, c) ==
    LET rs == SelectSeq(rows, LAMBDA r : ~IsMissing(r[c]))
    IN  [i \in 1..Len(rs) |-> rs[i][c]]

\* The rows of X of status group g.
GroupRows(X, g) == SelectSeq(X.rows, LAMBDA r : r[STATUS] = g)

Groups(X) == {X.rows[i][STATUS] : i \in 1..Len(X.rows)}

\* The imputer before fit.
GroupImputerNew == [fitted |-> FALSE, medians |-> << >>, fallback |-> << >>]

GroupImputerFit(X) ==
    [fitted   |-> TRUE,
     medians  |-> [g \in Groups(X) |->
                     [c \in ImputeCols |->
                        Median(Present(GroupRows(X, g), c))]],
     fallback |-> [c \in ImputeCols |->
                     Median(Present(X.rows, c))]]

\* The value a missing cell of column c takes in a row of group g.
Fill(imp, g, c) ==
    IF g \in DOMAIN imp.medians /\ ~IsMissing(imp.medians[g][c])
    THEN imp.medians[g][c]
    ELSE imp.fallback[c]

ImputeRow(imp, row) ==
    [k \in DOMAIN row |->
        IF k \in ImputeCols /\ IsMissing(row[k])
        THEN Fill(imp, row[STATUS], k)
        ELSE row[k]]

GroupImputerTransform(imp, X) ==
    IF ~imp.fitted \/ ~HasAll(X, << STATUS >> \o impute_cols) THEN Raise
    ELSE Ok(Frame(X.cols, [i \in 1..Len(X.rows) |-> ImputeRow(imp, X.rows[i])]))

(* --------------- categorical_transformer (ColumnTransformer) ---------- *)

\* Every category the model's columns can hold, in the encoder's sorted order.
SortedCategories ==
    << "5-6 hours", "7-8 hours", "Healthy", "Less than 5 hours", "Moderate",
       "More than 8 hours", "Other", STUDENT, "Unhealthy", WORKING >>

\* The distinct values of column c in X, sorted.
Categories(X, c) ==
    SelectSeq(SortedCategories, LAMBDA v : \E i \in 1..Len(X.rows) : X.rows[i][c] = v)

\* The transformer before fit.
ColumnTransformerNew ==
    [fitted |-> FALSE, categories |-> << >>, feature_names_in |-> << >>,
     remainder |-> << >>]

\* ColumnTransformer.fit: the encoder learns each column's categories; the
\* columns it is not given are the remainder, passed through in frame order.
ColumnTransformerFit(X) ==
    [fitted           |-> TRUE,
     categories       |-> [c \in Range(categorical_cols) |-> Categories(X, c)],
     feature_names_in |-> X.cols,
     remainder        |-> SelectSeq(X.cols, LAMBDA c : c \notin Range(categorical_cols))]

\* Indicator columns made from the values of the frame being transformed, as
\* pandas.get_dummies would.
EncodedCategoriesOfData(enc, X, c) == Categories(X, c)

\* The categories whose indicator columns a transform of X produces for column c.
EncodedCategories(enc, X, c) == enc.categories[c]

\* OneHotEncoder with the default handle_unknown="error": an unknown value raises.
OneHotStrict(cats, v) ==
    [ok  |-> \E j \in 1..Len(cats) : cats[j] = v,
     row |-> [j \in 1..Len(cats) |-> IF cats[j] = v THEN 1 ELSE 0]]

\* OneHotEncoder(handle_unknown="ignore"), one cell: an unknown value is
\* accepted and gets no indicator.
OneHot(cats, v) ==
    [ok |-> TRUE, row |-> [j \in 1..Len(cats) |-> IF cats[j] = v THEN 1 ELSE 0]]

RECURSIVE Flatten(_)
Flatten(ss) == IF ss = << >> THEN << >> ELSE Head(ss) \o Flatten(Tail(ss))

\* get_feature_names_out of the encoder followed by the remainder's names.
FeatureNamesOut(enc, X) ==
    Flatten([k \in 1..Len(categorical_cols) |->
               LET c    == categorical_cols[k]
                   cats == EncodedCategories(enc, X, c)
               IN  [j \in 1..Len(cats) |-> << c, cats[j] >>]])
    \o [k \in 1..Len(enc.remainder) |-> << enc.remainder[k] >>]

\* No matrix: the value of an output that was not produced.
NoMatrix == [names |-> << >>, onehot |-> << >>, rest |-> << >>]

Matrix(names, onehot, rest) == [names |-> names, onehot |-> onehot, rest |-> rest]

\* ColumnTransformer.transform: the indicator block, then the remainder block.
ColumnTransformerTransform(enc, X) ==
    LET cell(i, k) == OneHot(EncodedCategories(enc, X, categorical_cols[k]),
                             X.rows[i][categorical_cols[k]])
    IN  IF ~enc.fitted \/ ~HasAll(X, enc.feature_names_in)
        THEN [ok |-> FALSE, M |-> NoMatrix]
        ELSE IF \E i \in 1..Len(X.rows), k \in 1..Len(categorical_cols) : ~cell(i, k).ok
        THEN [ok |-> FALSE, M |-> NoMatrix]
        ELSE [ok |-> TRUE,
              M  |-> Matrix(FeatureNamesOut(enc, X),
                            [i \in 1..Len(X.rows) |->
                               Flatten([k \in 1..Len(categorical_cols) |-> cell(i, k).row])],
                            [i \in 1..Len(X.rows) |->
                               [k \in 1..Len(enc.remainder) |->
                                  X.rows[i][enc.remainder[k]]]])]

(* ------------------------- the pipelines (cells [11], [13]) ----------- *)

\* The pipeline with the ratio step placed before the imputer.
preprocessor_ratio_first ==
    << "pressure", "satisfaction", "pressure_ratio", "impute",
       "diet_clean", "sleep_clean", "drop_cols", "encode" >>

\* The pipeline with the imputer step left out.
preprocessor_without_impute ==
    << "pressure", "satisfaction", "pressure_ratio",
       "diet_clean", "sleep_clean", "drop_cols", "encode" >>

preprocessor ==
    << "pressure", "satisfaction", "impute", "pressure_ratio",
       "diet_clean", "sleep_clean", "drop_cols", "encode" >>

\* Pipeline([step for step in preprocessor.steps if step[0] != "pressure_ratio"]):
\* a second pipeline over the same step objects.
pipe_baseline == SelectSeq(preprocessor, LAMBDA name : name # "pressure_ratio")

Steps(pipe) == IF pipe = "preprocessor" THEN preprocessor ELSE pipe_baseline

Pipelines == {"preprocessor", "pipe_baseline"}

\* FunctionTransformer(lambda X: X.drop(columns = drop_cols))
drop_columns(X) == IF ~HasAll(X, drop_cols) THEN Raise ELSE Ok(Drop(X, drop_cols))

\* The transform of one step on frame X, given the step objects' state.
StepTransform(name, imp, enc, X) ==
    CASE name = "pressure"       -> assign_pressure(X) @@ [M |-> NoMatrix]
      [] name = "satisfaction"   -> assign_satisfaction(X) @@ [M |-> NoMatrix]
      [] name = "impute"         -> GroupImputerTransform(imp, X) @@ [M |-> NoMatrix]
      [] name = "pressure_ratio" -> add_pressure_ratio(X) @@ [M |-> NoMatrix]
      [] name = "diet_clean"     -> replace_diet_habits(X) @@ [M |-> NoMatrix]
      [] name = "sleep_clean"    -> replace_sleep_duration(X) @@ [M |-> NoMatrix]
      [] name = "drop_cols"      -> drop_columns(X) @@ [M |-> NoMatrix]
      [] name = "encode"         -> ColumnTransformerTransform(enc, X) @@ [X |-> X]

\* A step fit that keeps the statistics of an imputer that is already fitted.
StepFitKeepingImputer(name, imp, enc, X) ==
    CASE name = "impute" ->
            IF HasAll(X, << STATUS >> \o impute_cols)
            THEN [ok |-> TRUE, imp |-> IF imp.fitted THEN imp ELSE GroupImputerFit(X),
                  enc |-> enc]
            ELSE [ok |-> FALSE, imp |-> imp, enc |-> enc]
      [] name = "encode" ->
            IF HasAll(X, categorical_cols)
            THEN [ok |-> TRUE, imp |-> imp, enc |-> ColumnTransformerFit(X)]
            ELSE [ok |-> FALSE, imp |-> imp, enc |-> enc]
      [] OTHER -> [ok |-> TRUE, imp |-> imp, enc |-> enc]

\* The fit of one step on frame X: the new state of the step objects, or a raise.
StepFit(name, imp, enc, X) ==
    CASE name = "impute" ->
            IF HasAll(X, << STATUS >> \o impute_cols)
            THEN [ok |-> TRUE, imp |-> GroupImputerFit(X), enc |-> enc]
            ELSE [ok |-> FALSE, imp |-> imp, enc |-> enc]
      [] name = "encode" ->
            IF HasAll(X, categorical_cols)
            THEN [ok |-> TRUE, imp |-> imp, enc |-> ColumnTransformerFit(X)]
            ELSE [ok |-> FALSE, imp |-> imp, enc |-> enc]
      [] OTHER -> [ok |-> TRUE, imp |-> imp, enc |-> enc]

\* The state of a run of a pipeline: the step objects, the frame threaded
\* through the steps, the output matrix, the steps entered so far, the steps
\* whose fit completed, and whether a step raised.
Start(imp, enc, X) ==
    [imp |-> imp, enc |-> enc, X |-> X, M |-> NoMatrix, ran |-> << >>,
     learned |-> {}, ok |-> TRUE]

\* Pipeline.transform from step i on.
RECURSIVE TransformFrom(_, _, _)
TransformFrom(steps, i, r) ==
    IF i > Len(steps) \/ ~r.ok THEN r
    ELSE LET t == StepTransform(steps[i], r.imp, r.enc, r.X)
         IN  TransformFrom(steps, i + 1,
                 [r EXCEPT !.X = t.X, !.M = t.M, !.ok = t.ok,
                           !.ran = Append(@, steps[i])])

\* Pipeline.fit from step i on: every step but the last is fitted and
\* then transforms the frame for the next one; the last is only fitted.
RECURSIVE FitFrom(_, _, _)
FitFrom(steps, i, r) ==
    IF i > Len(steps) \/ ~r.ok THEN r
    ELSE LET f == StepFit(steps[i], r.imp, r.enc, r.X)
             entered == [r EXCEPT !.ran = Append(@, steps[i])]
             fitted  == [entered EXCEPT !.imp = f.imp, !.enc = f.enc,
                                        !.learned = @ \cup {steps[i]}]
         IN  IF ~f.ok THEN [entered EXCEPT !.ok = FALSE]
             ELSE IF i = Len(steps) THEN fitted
             ELSE LET t == StepTransform(steps[i], f.imp, f.enc, r.X)
                  IN  FitFrom(steps, i + 1, [fitted EXCEPT !.X = t.X, !.ok = t.ok])

PipelineFit(pipe, imp, enc, X) == FitFrom(Steps(pipe), 1, Start(imp, enc, X))

\* fit_transform called where transform was meant.
PipelineFitTransform(pipe, imp, enc, X) ==
    LET f == PipelineFit(pipe, imp, enc, X)
    IN  IF ~f.ok THEN f ELSE TransformFrom(Steps(pipe), 1, Start(f.imp, f.enc, X))

PipelineTransform(pipe, imp, enc, X) == TransformFrom(Steps(pipe), 1, Start(imp, enc, X))

(* ------------------------------ inputs -------------------------------- *)

\* What a modelled respondent reports: the Pressure, Satisfaction and Financial
\* Stress scores, the diet text and the sleep text.  Between them the profiles
\* give every imputed column a missing value, a zero and a one, and every text
\* column two canonical values and one that is not in the vocabulary.
Profiles ==
    << << Missing, Num(0), Num(1), "Healthy", "7-8 hours" >>,
       << Num(0), Num(1), Missing, "Unhealthy", "Less than 5 hours" >>,
       << Num(1), Missing, Num(0), "No", "Unhealthy" >> >>

Statuses == << STUDENT, WORKING >>

\* One respondent's raw record: the pressure and satisfaction scores sit in
\* the source columns of the respondent's status.
RawRow(status, pr) ==
    [c \in {raw_columns[k] : k \in 1..Len(raw_columns)} |->
        CASE c = "Name"               -> "respondent"
          [] c = STATUS               -> status
          [] c = "Academic Pressure"  -> IF status = STUDENT THEN pr[1] ELSE Missing
          [] c = "Work Pressure"      -> IF status = WORKING THEN pr[1] ELSE Missing
          [] c = "Study Satisfaction" -> IF status = STUDENT THEN pr[2] ELSE Missing
          [] c = "Job Satisfaction"   -> IF status = WORKING THEN pr[2] ELSE Missing
          [] c = "Financial Stress"   -> pr[3]
          [] c = "Dietary Habits"     -> pr[4]
          [] c = "Sleep Duration"     -> pr[5]]

\* The modelled respondents, numbered.
RawRows ==
    [k \in 1..(Len(Statuses) * Len(Profiles)) |->
        LET st == Statuses[((k - 1) % Len(Statuses)) + 1]
            pr == Profiles[((k - 1) \div Len(Statuses)) + 1]
        IN  RawRow(st, pr)]

\* The non-decreasing sequences of at most n respondent numbers: row order is
\* immaterial to every stage, so one order of each multiset of rows is kept.
RECURSIVE Picks(_)
Picks(n) ==
    IF n = 0 THEN {<< >>}
    ELSE LET shorter == Picks(n - 1)
         IN  shorter \cup
             {Append(f, k) : f \in {g \in shorter : Len(g) = n - 1},
                             k \in 1..Len(RawRows)}

Sorted(f) == \A i \in 1..(Len(f) - 1) : f[i] <= f[i + 1]

\* The raw frames of 1 .. MaxRows rows.
RawFrames ==
    {Frame(raw_columns, [i \in 1..Len(f) |-> RawRows[f[i]]]) :
        f \in {g \in Picks(MaxRows) : g # << >> /\ Sorted(g)}}

\* A raw file that lacks the identifier column.
WithoutName(X) == Drop(X, << "Name" >>)

Slots == {"X_train", "X_val"}

(* ------------------------------- state -------------------------------- *)

\* data:       the frames loaded by the notebook, by variable name
\* impute:     the GroupImputer object of step "impute" (of both pipelines)
\* encode:     the ColumnTransformer object of step "encode" (of both pipelines)
\* last:       the most recent fit or transform call and what it returned
\* fitted_on:  the variable whose frame the imputer last learned from

NoCall == [pipe |-> "", op |-> "", slot |-> "", ok |-> TRUE, ran |-> << >>, M |-> NoMatrix]

SingleRow == {X \in RawFrames : Len(X.rows) = 1}

Init ==
    /\ data \in {[X_train |-> t, X_val |-> v] :
                    t \in RawFrames,
                    v \in SingleRow \cup {WithoutName(X) : X \in SingleRow}}
    /\ impute = GroupImputerNew
    /\ encode = ColumnTransformerNew
    /\ last = NoCall
    /\ fitted_on = ""

\* pipe.fit(data[slot])
Fit(pipe, slot) ==
    LET r == PipelineFit(pipe, impute, encode, data[slot])
    IN  /\ impute' = r.imp
        /\ encode' = r.enc
        /\ last' = [pipe |-> pipe, op |-> "fit", slot |-> slot, ok |-> r.ok,
                    ran |-> r.ran, M |-> NoMatrix]
        /\ fitted_on' = IF "impute" \in r.learned THEN slot ELSE fitted_on
        /\ UNCHANGED data

\* pipe.transform(data[slot])
Transform(pipe, slot) ==
    LET r == PipelineTransform(pipe, impute, encode, data[slot])
    IN  /\ impute' = r.imp
        /\ encode' = r.enc
        /\ last' = [pipe |-> pipe, op |-> "transform", slot |-> slot, ok |-> r.ok,
                    ran |-> r.ran, M |-> r.M]
        /\ UNCHANGED <<data, fitted_on>>

Next ==
    \E pipe \in Pipelines, slot \in Slots :
        \/ Fit(pipe, slot)
        \/ Transform(pipe, slot)

Spec == Init /\ [][Next]_vars

(* ====================== properties of the pipeline ===================== *)

\* The columns the imputer is configured for, as the properties name them.
ImputedColumns == {"Pressure", "Satisfaction", "Financial Stress"}

IsTransform == last.op = "transform"

Input == data[last.slot]

\* The score of column c a raw row carries before imputation.
RawScore(row, c) ==
    CASE c = "Pressure" ->
            IF row["Academic Pressure"] # Missing THEN row["Academic Pressure"]
            ELSE row["Work Pressure"]
      [] c = "Satisfaction" ->
            IF row["Study Satisfaction"] # Missing THEN row["Study Satisfaction"]
            ELSE row["Job Satisfaction"]
      [] OTHER -> row[c]

\* Whether the output matrix has a passed-through column named c.
HasColumn(M, c) == \E k \in 1..Len(M.names) : M.names[k] = << c >>

\* The cell of row i of the output matrix in the passed-through column c.
CellOf(M, i, c) ==
    LET off == Len(M.names) - Len(M.rest[i])
        k   == CHOOSE j \in 1..Len(M.rest[i]) : M.names[off + j] = << c >>
    IN  M.rest[i][k]

(* C1: after fit, no apply call (on train, validation or test data, in any   *)
(* order, any number of times) changes the learned state: the imputer's      *)
(* medians and the encoder's vocabularies stay what the fit left.            *)
C1_ApplyKeepsLearnedState ==
    [][last'.op = "transform" => (impute' = impute /\ encode' = encode)]_vars

\* A fitted pipeline has been applied to held-out data that differs from the
\* data the imputer learned from.
C1_Witness ==
    /\ IsTransform /\ last.ok
    /\ fitted_on = "X_train" /\ last.slot = "X_val"
    /\ data.X_val # data.X_train

EveryColumnObserved(X) ==
    \A c \in ImputedColumns : \E i \in 1..Len(X.rows) : RawScore(X.rows[i], c) # Missing

ScoresOf(rows, c) ==
    LET rs == SelectSeq(rows, LAMBDA r : RawScore(r, c) # Missing)
    IN  [i \in 1..Len(rs) |-> RawScore(rs[i], c)[1]]

\* The rows of X whose status is that of `row`.
SameGroup(X, row) == SelectSeq(X.rows, LAMBDA r : r[STATUS] = row[STATUS])

\* The value of rank r (from 0) among vals, by counting.
OrderStatistic(vals, r) ==
    CHOOSE x \in Range(vals) :
        /\ Cardinality({i \in 1..Len(vals) : vals[i] < x}) <= r
        /\ Cardinality({i \in 1..Len(vals) : vals[i] <= x}) > r

\* The median of vals: the middle value, or the mean of the two middle ones.
MiddleValue(vals) ==
    (OrderStatistic(vals, (Len(vals) - 1) \div 2) + OrderStatistic(vals, Len(vals) \div 2)) \div 2

\* Whether `cell` is what column c of raw row `row` must hold after imputation
\* from frame `train` (nothing is required where train has no score of c).
ImputedAs(cell, train, row, c) ==
    LET own == ScoresOf(SameGroup(train, row), c)
        all == ScoresOf(train.rows, c)
    IN  IF RawScore(row, c) # Missing THEN cell = RawScore(row, c)
        ELSE IF own # << >> THEN cell = << MiddleValue(own) >>
        ELSE IF all # << >> THEN cell = << MiddleValue(all) >>
        ELSE TRUE

(* C3: apply replaces a missing cell of an imputed column, in a row of group *)
(* g, with the median of that column over the rows of g that were present   *)
(* in the data given to fit; for a group unseen at fit time, or without any  *)
(* present value, with the column-wide median of the fit data; a present     *)
(* cell is left as it was.                                                   *)
C3_GroupMedianImputation ==
    (IsTransform /\ last.ok) =>
        \A i \in 1..Len(Input.rows), c \in ImputedColumns :
            ImputedAs(CellOf(last.M, i, c), data[fitted_on], Input.rows[i], c)

\* A missing cell was filled with the median of two different scores that its
\* own group had in the data given to fit.
C3_Witness ==
    /\ IsTransform /\ last.ok
    /\ \E i \in 1..Len(Input.rows), c \in ImputedColumns :
          LET own == ScoresOf(SameGroup(data[fitted_on], Input.rows[i]), c)
          IN  /\ RawScore(Input.rows[i], c) = Missing
              /\ Len(own) >= 2 /\ own[1] # own[2]
              /\ CellOf(last.M, i, c) = << MiddleValue(own) >>

(* C4: an apply call made before any fit ends in the imputer's               *)
(* uninitialized-statistics failure: it returns no output, so no missing     *)
(* cell is filled with zero or any other default.                            *)
C4_ApplyBeforeFitFails ==
    [][(last'.op = "transform" /\ ~impute.fitted /\ ~encode.fitted) =>
          /\ ~last'.ok
          /\ last'.M = NoMatrix
          /\ last'.ran[Len(last'.ran)] = "impute"]_vars

\* An apply call was made on data with missing scores while nothing was fitted.
C4_Witness ==
    /\ IsTransform /\ ~impute.fitted /\ ~encode.fitted
    /\ ~last.ok
    /\ \E c \in ImputedColumns : RawScore(Input.rows[1], c) = Missing

IsPrefix(s, t) == Len(s) <= Len(t) /\ \A i \in 1..Len(s) : s[i] = t[i]

\* The stage of the specification's pipeline description that a step belongs to.
StageOf(name) ==
    CASE name \in {"pressure", "satisfaction"}    -> "derive base features"
      [] name = "impute"                          -> "impute"
      [] name = "pressure_ratio"                  -> "derive ratio feature"
      [] name \in {"diet_clean", "sleep_clean"}   -> "normalize"
      [] name = "drop_cols"                       -> "drop superseded columns"
      [] name = "encode"                          -> "encode categoricals"

\* The stages a sequence of steps goes through, consecutive repeats merged.
RECURSIVE Stages(_)
Stages(ran) ==
    IF ran = << >> THEN << >>
    ELSE LET rest == Stages(Tail(ran))
         IN  IF rest # << >> /\ Head(rest) = StageOf(Head(ran)) THEN rest
             ELSE << StageOf(Head(ran)) >> \o rest

(* C5 as stated: every fit and every apply of the pipeline runs the stages   *)
(* in the order normalize, derive Pressure and Satisfaction, impute, derive  *)
(* ratio, normalize diet/sleep text, drop superseded columns, encode.        *)
C5_StagesAsStated ==
    (last.pipe = "preprocessor" /\ last.ok) =>
        Stages(last.ran) =
            << "normalize", "derive base features", "impute", "derive ratio feature",
               "normalize", "drop superseded columns", "encode categoricals" >>

(* C5 amended: every fit and every apply of preprocessor enters the steps in *)
(* the order pressure, satisfaction, impute, pressure_ratio, diet_clean,     *)
(* sleep_clean, drop_cols, encode (no normalize stage precedes the           *)
(* derivations), up to the first step that raises; in no call of either      *)
(* pipeline is pressure_ratio entered before impute.                         *)
C5_StepOrder ==
    /\ (last.pipe = "preprocessor") =>
          /\ IsPrefix(last.ran,
                      << "pressure", "satisfaction", "impute", "pressure_ratio",
                         "diet_clean", "sleep_clean", "drop_cols", "encode" >>)
          /\ last.ok => Len(last.ran) = 8
    /\ \A i \in 1..Len(last.ran) :
          last.ran[i] = "pressure_ratio" => \E j \in 1..(i - 1) : last.ran[j] = "impute"

\* preprocessor was applied, through all its steps, to data in which a row
\* came without a Pressure score.
C5_Witness ==
    /\ IsTransform /\ last.pipe = "preprocessor" /\ last.ok
    /\ \E i \in 1..Len(Input.rows) : RawScore(Input.rows[i], "Pressure") = Missing

\* The value of categorical column c that reaches the encoder for a raw row.
CategoryOf(row, c) ==
    CASE c = "Dietary Habits" -> DietOf(row)
      [] c = "Sleep Duration" -> SleepOf(row)
      [] OTHER                -> row[c]

RECURSIVE Sum(_)
Sum(ns) == IF ns = << >> THEN 0 ELSE Head(ns) + Sum(Tail(ns))

\* The number of indicator columns of the first k categorical columns.
IndicatorCount(enc, k) ==
    Sum([j \in 1..k |-> Len(enc.categories[categorical_cols[j]])])

\* The indicators of row i of the matrix for the k-th categorical column.
IndicatorsOf(M, enc, i, k) ==
    SubSeq(M.onehot[i], IndicatorCount(enc, k - 1) + 1, IndicatorCount(enc, k))

\* Whether the encoder's learned state is the one pipeline `pipe` fits: the
\* frame preprocessor hands to the encoder has the ratio column.
OwnEncoder(pipe) ==
    encode.fitted /\ ((pipe = "preprocessor") <=> (RATIO \in Range(encode.remainder)))

(* C6: applying the fitted pipeline to data holding, in an encoded column, a *)
(* value absent from the data the encoder was fitted on never fails; in that *)
(* row every indicator of that column is 0 (an indicator is 1 exactly for    *)
(* the row's own learned category), and the output has the learned columns   *)
(* and no other.                                                             *)
C6_UnknownCategoryIgnored ==
    (IsTransform /\ impute.fitted /\ OwnEncoder(last.pipe) /\ HasAll(Input, raw_columns)) =>
        /\ last.ok
        /\ Len(last.M.names) =
              IndicatorCount(encode, Len(categorical_cols)) + Len(encode.remainder)
        /\ \A i \in 1..Len(Input.rows) :
              /\ Len(last.M.onehot[i]) = IndicatorCount(encode, Len(categorical_cols))
              /\ \A k \in 1..Len(categorical_cols) :
                    LET cats == encode.categories[categorical_cols[k]]
                        v    == CategoryOf(Input.rows[i], categorical_cols[k])
                        ind  == IndicatorsOf(last.M, encode, i, k)
                    IN  /\ \A j \in 1..Len(cats) : (ind[j] = 1) <=> (cats[j] = v)
                        /\ v \notin Range(cats) => \A j \in 1..Len(cats) : ind[j] = 0

\* The pipeline was applied to a row whose status the encoder never saw.
C6_Witness ==
    /\ IsTransform /\ last.ok /\ OwnEncoder(last.pipe)
    /\ \E i \in 1..Len(Input.rows) :
          Input.rows[i][STATUS] \notin Range(encode.categories[STATUS])

\* The width of the rows of a matrix agrees with its column names.
WellFormed(M) ==
    \A i \in 1..Len(M.onehot) : Len(M.onehot[i]) + Len(M.rest[i]) = Len(M.names)

(* C7: with no fit in between, two apply calls of a pipeline give outputs    *)
(* with the same column names, in the same order and number, whatever data   *)
(* (train, validation, test) each is given and whatever categories occur in  *)
(* it.                                                                       *)
C7_SameSchemaAcrossApplies ==
    [][(/\ IsTransform /\ last.ok
        /\ last'.op = "transform" /\ last'.ok
        /\ last'.pipe = last.pipe) =>
          /\ last'.M.names = last.M.names
          /\ WellFormed(last'.M)]_vars

\* The pipeline was applied to data in which a learned category of some
\* encoded column does not occur.
C7_Witness ==
    /\ IsTransform /\ last.ok
    /\ \E k \in 1..Len(categorical_cols) :
          \E v \in Range(encode.categories[categorical_cols[k]]) :
              \A i \in 1..Len(Input.rows) : CategoryOf(Input.rows[i], categorical_cols[k]) # v

(* C8: a further fit call never leaves a mix of old and new learned state:   *)
(* either the call is rejected and the imputer and the encoder keep the      *)
(* state they had, or both hold what this one call learns from its data.     *)
C8_RefitAllOrNothing ==
    [][(last'.op = "fit" /\ impute.fitted /\ encode.fitted) =>
          LET fresh == PipelineFit(last'.pipe, GroupImputerNew, ColumnTransformerNew,
                                   data[last'.slot])
          IN  IF last'.ok
              THEN impute' = fresh.imp /\ encode' = fresh.enc
              ELSE impute' = impute /\ encode' = encode]_vars

(* C9: fitted pipelines are independent: a fit or an apply of pipe_baseline  *)
(* changes nothing of the learned state of the fitted preprocessor (and so   *)
(* nothing of what preprocessor's apply returns).                            *)
C9_PipelinesIndependent ==
    [][(last'.pipe = "pipe_baseline" /\ impute.fitted /\ OwnEncoder("preprocessor")) =>
          (impute' = impute /\ encode' = encode)]_vars

\* The ratio column of the output is what the row's Pressure and Satisfaction
\* columns give: the sentinel for Satisfaction 0, else their exact quotient.
RatioDefined(M, i) ==
    LET p == CellOf(M, i, "Pressure")
        s == CellOf(M, i, "Satisfaction")
        r == CellOf(M, i, RATIO)
    IN  /\ (s # Missing /\ s[1] = 0) => r = RatioSentinel
        /\ (s # Missing /\ s[1] # 0 /\ p # Missing) =>
              (r # Missing /\ r[2] > 0 /\ r[1] * s[1] = p[1] * r[2])

\* A ratio cell is a number: neither NaN nor infinite.
Finite(r) == r # Missing /\ r[2] # 0

====
